---- MODULE Spec2Model ----
(***************************************************************************)
(* Delivery pipeline of the Telegram -> Google Docs archiver:              *)
(* TelegramToGDocsArchiver (main.py), GoogleDocsWriter.write_batch         *)
(* (docs_client.py), StateManager (state.py) and the catch-up fetch of     *)
(* TelegramClient (client.py).                                             *)
(*                                                                         *)
(* A message is identified by its id; the rendered text of message m is    *)
(* the document token m.  Every inserted text (banner, message section,    *)
(* footer, test line, foreign edit) is one token of length 1, so a         *)
(* document is a sequence of tokens and API indexes count tokens: token k  *)
(* of the sequence sits at index k, the closing newline of the body at     *)
(* Len(doc) + 1 and the body's endIndex is Len(doc) + 2.                   *)
(*                                                                         *)
(* The asyncio event loop runs one coroutine at a time.  A coroutine       *)
(* yields only at an await that really suspends: the tenacity sleep        *)
(* between two attempts of write_batch, the timer wait, the wait for the   *)
(* shutdown event.  Between two such points the steps of a coroutine are   *)
(* separate actions (a crash or a foreign edit of the shared document can  *)
(* fall between them) during which no other coroutine may run.             *)
(***************************************************************************)
EXTENDS Integers, Sequences, FiniteSets, TLC

VARIABLES
    \* ---- StateManager (SqliteDict, autocommit) : survives a crash
    watermark,      \* db["last_msg_<channel>"], 0 = key absent
    pending,        \* db["pending_batch"]: sequence of message dicts
    hasPending,     \* "pending_batch" in db
    processed,      \* stats["total_processed"]
    errors,         \* stats["errors_count"]
    \* ---- remote collaborators
    doc,            \* the Google document: sequence of tokens
    chanMax,        \* the channel holds the messages 1..chanMax
    \* ---- the archiver process (lost on crash or exit)
    buffer,         \* self.message_buffer
    running,        \* self.running
    pc,             \* position of each coroutine
    fl,             \* position of each coroutine inside flush_buffer
    att,            \* tenacity attempt number of the flush of each coroutine
    cur,            \* current_length - 1 read by the running attempt
    todo,           \* catch_up: messages still to feed, oldest first
    \* ---- environment budgets
    faults,         \* faults of the environment so far: failed remote calls, foreign edits
    starts,         \* process starts so far
    \* ---- history of the run (observation only)
    batch,          \* messages composed by the latest attempt of each coroutine
    startBuf,       \* buffer when the flush of each coroutine began
    startWm,        \* watermark when the flush of each coroutine began
    procBefore,     \* total_processed when the write was confirmed
    subs,           \* batchUpdate submissions made by the flush of each coroutine
    appended,       \* ids appended to the buffer in this process lifetime
    late,           \* ids appended while a flush waited between two attempts
    preCrash,       \* ids appended to a buffer before the latest crash
    fbOps,          \* requests of the latest fallback submission
    fbBatch,        \* messages of the batch that fallback stood for
    fbMade,         \* a fallback submission was made
    pendAtStart,    \* pending batch found by this process at start
    replayed,       \* messages loaded by process_pending in this lifetime
    didReplay,      \* process_pending loaded a batch in this lifetime
    fetched,        \* catch_up fetched history in this lifetime
    liveSeen,       \* a live message was accepted in this lifetime
    catchFrom,      \* watermark used by the fetch
    catchTo,        \* newest channel id at fetch time
    fed,            \* messages catch_up passed to process_message
    waitedOut,      \* the timer wait just ended only when check_interval had run out
    \* ---- a call of a function of the package made by its unit test
    call            \* the function called, its argument and its outcome

dbVars   == <<watermark, pending, hasPending, processed, errors>>
envVars  == <<doc, chanMax, faults, starts>>
procVars == <<buffer, running, pc, fl, att, cur, todo>>
flushHist == <<batch, startBuf, startWm, procBefore, subs>>
fbHist   == <<fbOps, fbBatch, fbMade>>
runHist  == <<pendAtStart, replayed, didReplay, fetched, liveSeen, catchFrom, catchTo, fed, waitedOut>>
histVars == <<flushHist, fbHist, runHist, appended, late, preCrash>>
progVars == <<dbVars, envVars, procVars, histVars>>
vars     == <<progVars, call>>

----------------------------------------------------------------------------
\* Bounds of the model

MaxMsgId == 3
MaxFaults == 2
MaxStarts == 2
MaxHandlers == 1

\* Program constants (batch_size, the history limit and the attempt count scaled down)
BatchSize == 3
CatchUpLimit == 1
MaxAttempts == 2

----------------------------------------------------------------------------
\* Coroutines: run() (with process_pending, catch_up, cleanup),
\* periodic_flush, and the telethon handler tasks calling process_message

Main == 0
Timer == 1
Handlers == 2..(MaxHandlers + 1)
Threads == 0..(MaxHandlers + 1)

\* Document tokens
HDR == 0
FTR == -1
EXT == -2
TEST == -3

Last(s) == s[Len(s)]
Ids(s) == {s[i] : i \in 1..Len(s)}
Reverse(s) == [i \in 1..Len(s) |-> s[Len(s) + 1 - i]]

\* MessageData.dict() and MessageData(**msg)
MsgDict(m) == [id |-> m]
MessageData(d) == d.id

----------------------------------------------------------------------------
\* Google Docs requests

Length(text) == 1

InsertRequest(text, index) == [op |-> "insert", text |-> text, index |-> index, to |-> index]
FormatRequest(start, end) == [op |-> "style", text |-> HDR, index |-> start, to |-> end]

DocEndIndex(d) == Len(d) + 2

InsertAt(d, text, index) ==
    SubSeq(d, 1, index - 1) \o <<text>> \o SubSeq(d, index, Len(d))

ValidRequest(d, r) ==
    IF r.op = "insert"
    THEN r.index >= 1 /\ r.index < DocEndIndex(d)
    ELSE r.index >= 1 /\ r.index < r.to /\ r.to <= DocEndIndex(d)

ApplyRequest(d, r) == IF r.op = "insert" THEN InsertAt(d, r.text, r.index) ELSE d

\* documents().batchUpdate: the requests are applied in order, all or none
RECURSIVE ValidRequests(_, _)
ValidRequests(d, rs) ==
    IF rs = <<>> THEN TRUE
    ELSE ValidRequest(d, Head(rs)) /\ ValidRequests(ApplyRequest(d, Head(rs)), Tail(rs))

RECURSIVE ApplyRequests(_, _)
ApplyRequests(d, rs) ==
    IF rs = <<>> THEN d ELSE ApplyRequests(ApplyRequest(d, Head(rs)), Tail(rs))

\* _create_formatted_message_requests: rendered text and its header style
FormattedMessageRequests(m, start) ==
    <<InsertRequest(m, start), FormatRequest(start, start + Length(m))>>

\* the for loop of write_batch
RECURSIVE MessageRequests(_, _)
MessageRequests(msgs, position) ==
    IF msgs = <<>> THEN <<>>
    ELSE FormattedMessageRequests(Head(msgs), position)
         \o MessageRequests(Tail(msgs), position + Length(Head(msgs)))

RECURSIVE TotalLength(_)
TotalLength(msgs) == IF msgs = <<>> THEN 0 ELSE Length(Head(msgs)) + TotalLength(Tail(msgs))

HeaderEnd(p) == p + Length(HDR)
FooterPosition(msgs, p) == HeaderEnd(p) + TotalLength(msgs)

\* write_batch with the for loop running over the messages newest first
BatchRequests_NewestFirst(msgs, p) ==
    <<InsertRequest(HDR, p), FormatRequest(p, HeaderEnd(p))>>
    \o MessageRequests(Reverse(msgs), HeaderEnd(p))
    \o <<InsertRequest(FTR, FooterPosition(msgs, p)),
         FormatRequest(FooterPosition(msgs, p), FooterPosition(msgs, p) + Length(FTR))>>

\* write_batch submitting the first message of the list only
BatchRequests_OneMessage(msgs, p) ==
    <<InsertRequest(HDR, p), FormatRequest(p, HeaderEnd(p))>>
    \o MessageRequests(SubSeq(msgs, 1, 1), HeaderEnd(p))
    \o <<InsertRequest(FTR, FooterPosition(SubSeq(msgs, 1, 1), p)),
         FormatRequest(FooterPosition(SubSeq(msgs, 1, 1), p),
                       FooterPosition(SubSeq(msgs, 1, 1), p) + Length(FTR))>>

\* write_batch: all_requests
BatchRequests(msgs, p) ==
    <<InsertRequest(HDR, p), FormatRequest(p, HeaderEnd(p))>>
    \o MessageRequests(msgs, HeaderEnd(p))
    \o <<InsertRequest(FTR, FooterPosition(msgs, p)),
         FormatRequest(FooterPosition(msgs, p), FooterPosition(msgs, p) + Length(FTR))>>

\* write_batch: fallback_requests after HttpError
FallbackRequests(msgs, p) == <<InsertRequest(FTR, FooterPosition(msgs, p))>>

----------------------------------------------------------------------------
\* StateManager

\* set_last_message_id(channel, last_message.id)
SetLastMessageId_NextId(buf) == Last(buf) + 1
SetLastMessageId(buf) == Last(buf)

\* save_pending_batch(messages)
SavePendingBatch_DropsLast(buf) == [i \in 1..(Len(buf) - 1) |-> MsgDict(buf[i])]
SavePendingBatch_NewestFirst(buf) == [i \in 1..Len(buf) |-> MsgDict(buf[Len(buf) + 1 - i])]
SavePendingBatch(buf) == [i \in 1..Len(buf) |-> MsgDict(buf[i])]

\* process_pending: [MessageData(**msg) for msg in pending]
PendingMessages(p) == [i \in 1..Len(p) |-> MessageData(p[i])]

\* update_stats(processed=len(buffer))
StatsProcessed_CountsBatches(old, buf) == old + 1
StatsProcessed(old, buf) == old + Len(buf)

\* TelegramClient.get_messages_batch: iter_messages yields the newest
\* messages first, at most limit of them, with id > min_id
RECURSIVE Newest(_, _, _)
Newest(top, minId, limit) ==
    IF limit = 0 \/ top <= minId THEN <<>>
    ELSE <<top>> \o Newest(top - 1, minId, limit - 1)

GetMessagesBatch(minId, limit) == Newest(chanMax, minId, limit)

----------------------------------------------------------------------------
Mid(t) == fl[t] \in {"try", "got", "rejected", "wrote", "marked", "counted", "failed", "raised", "staged"}
NoMid == \A t \in Threads : ~Mid(t)
InFlush(t) == fl[t] # "none"
Up == pc[Main] # "down"
Listening == pc[Main] \in {"live", "cleanup", "cleanupf"}

----------------------------------------------------------------------------
\* src/telegram/handlers.py, called by tests/test_handlers.py

\* values an attribute of a message object takes: 0 .. MaxAttr (a text 0 is "")
MaxAttr == 2

\* an attribute of a Telethon message object: present with a value, or absent
Absent == [has |-> FALSE, val |-> 0]
Attr(v) == [has |-> TRUE, val |-> v]
Attrs == {Absent} \cup {Attr(v) : v \in 0..MaxAttr}
Messages == [id : Attrs, date : Attrs, sender_id : Attrs, text : Attrs]

\* getattr(message, name, default)
GetAttr(a, default) == IF a.has THEN a.val ELSE default

\* str(value)
Str(v) == <<"str", v>>

\* the names src/telegram/models.py defines
ModelsNames == {"MessageData"}

\* from src.telegram.models import <name>
CanImport(name) == name \in ModelsNames

\* outcomes of a call
NotCalled == [kind |-> "pending", val |-> <<>>]
Raised(e) == [kind |-> "raised", val |-> e]
Returned(v) == [kind |-> "returned", val |-> v]
None == [kind |-> "none", val |-> <<>>]

\* TelegramMessage(id=..., date=..., sender_id=..., text=...)
TelegramMessage(message) ==
    [id |-> GetAttr(message.id, 0),
     date |-> Str(GetAttr(message.date, 0)),
     sender_id |-> GetAttr(message.sender_id, 0),
     text |-> GetAttr(message.text, 0)]

\* handlers.py as loaded and called: the import at the top of the module runs
\* first; in the body, the debug line reads message.id inside the try
handle_new_message(message) ==
    IF ~CanImport("TelegramMessage") THEN Raised("ImportError")
    ELSE IF ~message.id.has THEN None
    ELSE Returned(TelegramMessage(message))

\* DummyMsg of test_handlers.py with nothing called on it yet
Prepared(message) == [fn |-> "none", arg |-> message, ret |-> NotCalled]
NoCall == Prepared([id |-> Absent, date |-> Absent, sender_id |-> Absent, text |-> Absent])

----------------------------------------------------------------------------
\* write_batch as a function of the message list and the fetched document,
\* with texts of different lengths (the pipeline above takes every text as
\* one token)

\* rendered messages are 1 .. MaxTextLen characters long
MaxTextLen == 3
\* a batch holds 0 .. MaxBatch messages
MaxBatch == 3
\* the fetched document ends at endIndex 2 .. MaxEndIndex
MaxEndIndex == 4

\* len(header), len(footer): fixed by the format strings, scaled down
BannerLen == 2
FooterLen == 3

\* the lists of at most n rendered lengths
RECURSIVE LengthLists(_)
LengthLists(n) ==
    IF n = 0 THEN {<<>>}
    ELSE LengthLists(n - 1)
         \cup {Append(ls, l) : ls \in {x \in LengthLists(n - 1) : Len(x) = n - 1}, l \in 1..MaxTextLen}

\* a text to insert: what it is and how many characters it has
Banner == [kind |-> "banner", id |-> 0, len |-> BannerLen]
Footer == [kind |-> "footer", id |-> 0, len |-> FooterLen]
Rendered(i, l) == [kind |-> "message", id |-> i, len |-> l]

\* current_position after a text has been laid out, were every text one
\* character long
Advance_ByOne(position, text) == position + 1

\* current_position += len(formatted_text)
Advance(position, text) == position + text.len

\* the for loop of write_batch over messages i .. n, lens[i] being the length
\* of the text _create_formatted_message_requests renders for message i
RECURSIVE LaidOut(_, _, _)
LaidOut(lens, i, position) ==
    IF i > Len(lens) THEN <<>>
    ELSE <<InsertRequest(Rendered(i, lens[i]), position),
           FormatRequest(position, Advance(position, Rendered(i, lens[i])))>>
         \o LaidOut(lens, i + 1, Advance(position, Rendered(i, lens[i])))

\* current_position when the for loop has ended
RECURSIVE CursorAfter(_, _, _)
CursorAfter(lens, i, position) ==
    IF i > Len(lens) THEN position
    ELSE CursorAfter(lens, i + 1, Advance(position, Rendered(i, lens[i])))

\* write_batch: all_requests for the fetched current_length
AllRequests(lens, current_length) ==
    LET header_start == current_length - 1
        header_end == header_start + Banner.len
        footer_start == CursorAfter(lens, 1, header_end)
    IN  <<InsertRequest(Banner, header_start), FormatRequest(header_start, header_end)>>
        \o LaidOut(lens, 1, header_end)
        \o <<InsertRequest(Footer, footer_start),
             FormatRequest(footer_start, footer_start + Footer.len)>>

----------------------------------------------------------------------------
\* GoogleDocsWriter._clean_url and _extract_links. A text is a sequence of
\* tokens: "h" is 'http://', "s" is 'https://', "p" is the word 'http',
\* "//" is two slashes, "." a punctuation mark of '.,;!?', " " a whitespace
\* character, "a" any other character, and the four brackets themselves

\* a text is made of at most MaxPieces pieces
MaxPieces == 3

Pieces ==
    {<<"a">>, <<" ">>, <<".">>, <<")">>, <<"h", "a">>, <<"s", "a">>,
     <<"(", "a", ")">>, <<"p", " ", "s", "a">>, <<"//", "a">>,
     <<"[", "a", "]", "(", "s", "a", ")">>, <<"[", "a", "]", "(", "a", ")">>}

RECURSIVE PieceTexts(_)
PieceTexts(n) ==
    IF n = 0 THEN {<<>>}
    ELSE PieceTexts(n - 1) \cup {t \o q : t \in PieceTexts(n - 1), q \in Pieces}

Texts == PieceTexts(MaxPieces)

Punctuation == {"."}
Whitespace == {" ", "\n"}

\* str.rstrip(chars)
RECURSIVE RStrip(_, _)
RStrip(u, chars) ==
    IF u # <<>> /\ u[Len(u)] \in chars THEN RStrip(SubSeq(u, 1, Len(u) - 1), chars) ELSE u

\* str.startswith(prefix)
StartsWith(u, prefix) == Len(u) >= Len(prefix) /\ SubSeq(u, 1, Len(prefix)) = prefix

\* str.replace(old, new)
RECURSIVE Replace(_, _, _)
Replace(u, old, new) ==
    IF u = <<>> THEN <<>>
    ELSE IF StartsWith(u, old) THEN new \o Replace(SubSeq(u, Len(old) + 1, Len(u)), old, new)
    ELSE <<Head(u)>> \o Replace(Tail(u), old, new)

\* any(char in url[:-1] for char in '()')
ParenBeforeLast(u) == \E i \in 1..(Len(u) - 1) : u[i] \in {"(", ")"}

HttpHttps == <<"p", " ", "s">>

_clean_url(url) ==
    IF url = <<>> THEN url
    ELSE LET stripped == RStrip(url, Punctuation \cup Whitespace)
             unclosed == IF stripped # <<>> /\ Last(stripped) = ")" /\ ~ParenBeforeLast(stripped)
                         THEN SubSeq(stripped, 1, Len(stripped) - 1) ELSE stripped
             fixed == IF StartsWith(unclosed, HttpHttps)
                      THEN Replace(unclosed, HttpHttps, <<"s">>) ELSE unclosed
             ended == RStrip(fixed, Punctuation \cup Whitespace \cup {")"})
         IN  IF StartsWith(ended, <<"h">>) \/ StartsWith(ended, <<"s">>) THEN ended
             ELSE IF StartsWith(ended, <<"//">>) THEN <<"s">> \o Tail(ended)
             ELSE <<"s">> \o ended

\* the position of the first token c of text at or after position i, 0 if none
RECURSIVE Find(_, _, _)
Find(text, c, i) ==
    IF i > Len(text) THEN 0 ELSE IF text[i] = c THEN i ELSE Find(text, c, i + 1)

\* markdown_pattern matched at position i: the positions of its ']' and of
\* its final ')', or <<>> if it does not match there
MarkdownAt(text, i) ==
    IF i > Len(text) \/ text[i] # "[" THEN <<>>
    ELSE LET k == Find(text, "]", i + 1)
         IN  IF k = 0 \/ k = i + 1 \/ k + 1 > Len(text) THEN <<>>
             ELSE IF text[k + 1] # "(" THEN <<>>
             ELSE LET c == Find(text, ")", k + 2)
                  IN  IF c = 0 \/ c = k + 2 THEN <<>> ELSE <<k, c>>

\* a link found: cleaned url, match.start(), match.end()
Link(url, start, end) == [url |-> url, start |-> start, end |-> end]

\* re.finditer(markdown_pattern, text) from position i on
RECURSIVE MarkdownLinks(_, _)
MarkdownLinks(text, i) ==
    IF i > Len(text) THEN <<>>
    ELSE LET m == MarkdownAt(text, i)
         IN  IF m = <<>> THEN MarkdownLinks(text, i + 1)
             ELSE LET url == _clean_url(SubSeq(text, m[1] + 2, m[2] - 1))
                  IN  (IF url # <<>> THEN <<Link(url, i - 1, m[2])>> ELSE <<>>)
                      \o MarkdownLinks(text, m[2] + 1)

\* [^\s<>"{}|\\^`\[\]]
UrlChar(c) == c \notin Whitespace \cup {"[", "]"}

\* the last position of the run of url characters that starts at position i
RECURSIVE RunEnd(_, _)
RunEnd(text, i) ==
    IF i + 1 <= Len(text) /\ UrlChar(text[i + 1]) THEN RunEnd(text, i + 1) ELSE i

\* re.finditer(url_pattern, text) from position i on
RECURSIVE PlainLinks(_, _)
PlainLinks(text, i) ==
    IF i > Len(text) THEN <<>>
    ELSE IF text[i] \in {"h", "s"} /\ i + 1 <= Len(text) /\ UrlChar(text[i + 1])
    THEN LET e == RunEnd(text, i + 1)
             url == _clean_url(SubSeq(text, i, e))
         IN  (IF url # <<>> THEN <<Link(url, i - 1, e)>> ELSE <<>>)
             \o PlainLinks(text, e + 1)
    ELSE PlainLinks(text, i + 1)

_extract_links(text) ==
    IF text = <<>> THEN <<>> ELSE MarkdownLinks(text, 1) \o PlainLinks(text, 1)

----------------------------------------------------------------------------
\* GoogleDocsWriter._create_formatted_message_requests and the request list
\* of write_batch, texts being token sequences with "\n" for a newline and
\* one token for a word, an emoji (named in words) or a formatted date of the
\* format strings

\* an optional string that is None or empty is <<>>; a datetime or a bool
\* field is TRUE where the code finds it truthy
LayoutBodies ==
    {<<>>, <<"a">>, <<"a", "\n", "s", "a", ".">>, <<"[", "a", "]", "(", "s", "a", ")">>}

LayoutMessages ==
    [channel_name : {<<"c">>},
     forward_from_channel_name : {<<>>, <<"f", "f">>},
     forward_original_date : BOOLEAN,
     has_media : BOOLEAN,
     media_type : {<<"Photo">>},
     media_caption : {<<>>, <<"k">>},
     text : LayoutBodies,
     original_link : {<<>>, <<"s", "t">>},
     forward_original_link : {<<>>, <<"s", "o">>}]

\* the message without any optional section and the one with all of them
BareMessage ==
    [channel_name |-> <<"c">>, forward_from_channel_name |-> <<>>,
     forward_original_date |-> FALSE, has_media |-> FALSE, media_type |-> <<"Photo">>,
     media_caption |-> <<>>, text |-> <<>>, original_link |-> <<>>,
     forward_original_link |-> <<>>]
FullMessage ==
    [channel_name |-> <<"c">>, forward_from_channel_name |-> <<"f", "f">>,
     forward_original_date |-> TRUE, has_media |-> TRUE, media_type |-> <<"Photo">>,
     media_caption |-> <<"k">>, text |-> <<"[", "a", "]", "(", "s", "a", ")">>,
     original_link |-> <<"s", "t">>, forward_original_link |-> <<"s", "o">>]
LayoutEnds == {BareMessage, FullMessage}

\* "\n".join(parts)
RECURSIVE Join(_)
Join(parts) ==
    IF parts = <<>> THEN <<>>
    ELSE IF Len(parts) = 1 THEN parts[1]
    ELSE parts[1] \o <<"\n">> \o Join(Tail(parts))

\* MESSAGE_SEPARATOR and date.strftime(DATE_FORMAT)
MESSAGE_SEPARATOR == <<"=", "=">>
DateStr == <<"date">>

header_line(message) ==
    DateStr \o <<" ", "|", " ">>
    \o (IF message.forward_from_channel_name = <<>> THEN <<"loudspeaker">> ELSE <<"arrows">>)
    \o <<" ">>
    \o (IF message.forward_from_channel_name # <<>> THEN message.forward_from_channel_name
        ELSE IF message.channel_name # <<>> THEN message.channel_name
        ELSE <<"Unknown">>)

forward_text(message) == <<"arrow", " ", "Forwarded from:", " ">> \o message.forward_from_channel_name

orig_date(message) == <<"calendar", " ", "Original:", " ">> \o DateStr

media_text(message) ==
    <<"camera", " ">> \o message.media_type
    \o (IF message.media_caption # <<>> THEN <<":", " ">> \o message.media_caption ELSE <<>>)

link_text == <<"chain", " ", "View in Telegram">>
forward_link_text == <<"chain", " ", "View Original">>

\* parts, as the appends of the function build it
Parts(message) ==
    <<header_line(message)>>
    \o (IF message.forward_from_channel_name # <<>>
        THEN <<forward_text(message)>>
             \o (IF message.forward_original_date THEN <<orig_date(message)>> ELSE <<>>)
        ELSE <<>>)
    \o <<<<>>>>
    \o (IF message.has_media THEN <<media_text(message)>> ELSE <<>>)
    \o (IF message.text # <<>> THEN <<message.text>> ELSE <<>>)
    \o (IF message.original_link # <<>>
        THEN <<<<>>, link_text>>
             \o (IF message.forward_original_link # <<>> THEN <<forward_link_text>> ELSE <<>>)
        ELSE <<>>)
    \o <<<<>>, MESSAGE_SEPARATOR, <<>>>>

\* _create_format_request with the colour of COLORS[style], _create_link_request
StyleRequest(start, end, style) == [op |-> "style", text |-> style, index |-> start, to |-> end]
LinkRequest(start, end, url) == [op |-> "link", text |-> url, index |-> start, to |-> end]

\* current_pos after a line, with the newline that follows it left out
AfterLine_NoNewline(current_pos, line) == current_pos + Len(line)

\* current_pos = <line>_end + 1
AfterLine(current_pos, line) == current_pos + Len(line) + 1

\* abs_start, abs_end taken as the offsets inside the body
Absolute_Relative(text_start, rel) == rel

\* abs_start = text_start + rel_start, abs_end = text_start + rel_end
Absolute(text_start, rel) == text_start + rel

\* the link requests of the body that starts at text_start
BodyLinks(text, text_start) ==
    LET links == _extract_links(text)
    IN  [i \in 1..Len(links) |->
            LinkRequest(Absolute(text_start, links[i].start),
                        Absolute(text_start, links[i].end), links[i].url)]

_create_formatted_message_requests(message, start_index) ==
    LET forwarded == message.forward_from_channel_name # <<>>
        dated == forwarded /\ message.forward_original_date
        linked == message.original_link # <<>>
        header_pos == start_index
        forward_pos == AfterLine(header_pos, header_line(message))
        orig_pos == IF forwarded THEN AfterLine(forward_pos, forward_text(message)) ELSE forward_pos
        empty_pos == IF dated THEN AfterLine(orig_pos, orig_date(message)) ELSE orig_pos
        media_pos == empty_pos + 1
        text_start == IF message.has_media THEN AfterLine(media_pos, media_text(message)) ELSE media_pos
        after_text == IF message.text # <<>> THEN text_start + Len(message.text) + 1 ELSE text_start
        link_pos == after_text + 1
        forward_link_pos == AfterLine(link_pos, link_text)
    IN  [formatted_text |-> Join(Parts(message)),
         requests |->
            <<StyleRequest(header_pos, header_pos + Len(header_line(message)), "header")>>
            \o (IF forwarded
                THEN <<StyleRequest(forward_pos, forward_pos + Len(forward_text(message)), "forward")>>
                ELSE <<>>)
            \o (IF dated
                THEN <<StyleRequest(orig_pos, orig_pos + Len(orig_date(message)), "date")>>
                ELSE <<>>)
            \o (IF message.has_media
                THEN <<StyleRequest(media_pos, media_pos + Len(media_text(message)), "media")>>
                ELSE <<>>)
            \o (IF message.text # <<>> THEN BodyLinks(message.text, text_start) ELSE <<>>)
            \o (IF linked
                THEN <<LinkRequest(link_pos, link_pos + Len(link_text), message.original_link)>>
                     \o (IF message.forward_original_link # <<>>
                         THEN <<LinkRequest(forward_link_pos,
                                            forward_link_pos + Len(forward_link_text),
                                            message.forward_original_link)>>
                         ELSE <<>>)
                ELSE <<>>)]

\* header and footer of write_batch for a list of n messages
BatchHeader(n) == <<"\n", "package", " ", "BATCH UPDATE", " ", n, " ", "messages", "\n", "-", "\n">>
BatchFooter == <<"\n", "-", "\n", "check mark", " ", "Batch completed at", "\n", "\n">>

\* current_position after a message, the newline that ends its text left out
NextPosition_NoLastNewline(current_position, formatted_text) ==
    current_position + Len(formatted_text) - 1

\* current_position += len(formatted_text)
NextPosition(current_position, formatted_text) == current_position + Len(formatted_text)

\* the for loop of write_batch: the requests it adds
RECURSIVE MessageLoop(_, _)
MessageLoop(messages, current_position) ==
    IF messages = <<>> THEN <<>>
    ELSE <<InsertRequest(Join(Parts(Head(messages))), current_position)>>
         \o _create_formatted_message_requests(Head(messages), current_position).requests
         \o MessageLoop(Tail(messages),
                        NextPosition(current_position, Join(Parts(Head(messages)))))

\* the for loop of write_batch: current_position when it ends
RECURSIVE PositionAfter(_, _)
PositionAfter(messages, current_position) ==
    IF messages = <<>> THEN current_position
    ELSE PositionAfter(Tail(messages),
                       NextPosition(current_position, Join(Parts(Head(messages)))))

\* all_requests of write_batch for the fetched current_length
StyledRequests(messages, current_length) ==
    LET header == BatchHeader(Len(messages))
        header_start == current_length - 1
        header_end == header_start + Len(header)
        footer_start == PositionAfter(messages, header_end)
    IN  <<InsertRequest(header, header_start),
          StyleRequest(header_start, header_end, "batch_header")>>
        \o MessageLoop(messages, header_end)
        \o <<InsertRequest(BatchFooter, footer_start),
             StyleRequest(footer_start, footer_start + Len(BatchFooter), "batch_footer")>>

----------------------------------------------------------------------------
\* StateManager._open_db. A path is its stem followed by the tokens of its
\* suffix

\* the suffixes of the configured state_db_path: the default and another
Suffixes == {<<".db">>, <<".sqlite">>}
DbPath(suffix) == <<"state">> \o suffix

\* Path.with_suffix(suffix)
WithSuffix(path, suffix) == <<Head(path)>> \o suffix

\* the rollback journal SQLite keeps beside the database file
JournalOf(path) == path \o <<"-journal">>

\* a store without keys: no watermark, no pending batch, default stats
EmptyStore == [last |-> 0, pending |-> <<>>, processed |-> 0, errors |-> 0]

Stores == [last : 0..MaxMsgId, pending : {<<>>, <<MsgDict(1)>>}, processed : 0..1, errors : {0}]

\* the store file: missing, no database, or a database holding a store
MissingFile == [kind |-> "absent", data |-> EmptyStore]
CorruptFile == [kind |-> "corrupt", data |-> EmptyStore]
StoreFile(s) == [kind |-> "store", data |-> s]

StoreFiles == {MissingFile, CorruptFile} \cup {StoreFile(s) : s \in Stores}

\* the state directory: the store file and the journal files lying in it
Disks(path) == [store : StoreFiles, journals : SUBSET {JournalOf(path)}]

\* SqliteDict(path): it opens the file, creating it if missing, unless the
\* file is no database or the operating system refuses
CanOpen(disk, allowed) == allowed /\ disk.store.kind # "corrupt"
Opened(disk) == IF disk.store.kind = "absent" THEN EmptyStore ELSE disk.store.data

\* the two unlink(missing_ok=True) calls of the except branch
Unlinked(disk, path) ==
    [store |-> MissingFile, journals |-> disk.journals \ {WithSuffix(path, <<".db", "-journal">>)}]

\* what _open_db leaves: self.db or the exception, and the directory
Outcome(ret, disk) == [ret |-> ret, disk |-> disk]

_open_db(env) ==
    IF CanOpen(env.disk, env.opens)
    THEN Outcome(Returned(Opened(env.disk)),
                 [env.disk EXCEPT !.store = StoreFile(Opened(env.disk))])
    ELSE IF ~env.unlinks THEN Outcome(Raised("unlink"), env.disk)
    ELSE LET cleared == Unlinked(env.disk, env.path)
         IN  IF CanOpen(cleared, env.reopens)
             THEN Outcome(Returned(Opened(cleared)), [cleared EXCEPT !.store = StoreFile(Opened(cleared))])
             ELSE Outcome(Raised("SqliteDict"), cleared)

----------------------------------------------------------------------------
\* write_batch under tenacity when _create_formatted_message_requests raises
\* for some messages of the list

\* the lists of different message ids
IdLists == {s \in UNION {[1..n -> 1..MaxMsgId] : n \in 0..MaxMsgId} :
                \A i, j \in 1..Len(s) : i # j => s[i] # s[j]}

\* the for loop of one attempt: the exception of the first message whose
\* composition raises, or the list all_requests
RequestsOrError(messages, broken, p) ==
    IF \E i \in 1..Len(messages) : messages[i] \in broken
    THEN Raised("GoogleDocsError")
    ELSE Returned(BatchRequests(messages, p))

\* @retry(stop_after_attempt): attempt n and the attempts after it; every
\* attempt composes the same list again
RECURSIVE Retried(_, _, _, _)
Retried(messages, broken, p, n) ==
    LET made == RequestsOrError(messages, broken, p)
    IN  IF made.kind = "returned"
        THEN [ret |-> Returned(TRUE), attempts |-> n, submitted |-> <<made.val>>]
        ELSE IF n < MaxAttempts THEN Retried(messages, broken, p, n + 1)
        ELSE [ret |-> Raised("RetryError"), attempts |-> n, submitted |-> <<>>]

IdlePc(t) == IF t = Main THEN "down" ELSE IF t = Timer THEN "toff" ELSE "idle"

\* TelegramArchiver before run() is called
Constructed ==
    /\ watermark = 0 /\ pending = <<>> /\ hasPending = FALSE
    /\ processed = 0 /\ errors = 0
    /\ doc = <<>> /\ chanMax = 0
    /\ buffer = <<>> /\ running = FALSE
    /\ pc = [t \in Threads |-> IdlePc(t)]
    /\ fl = [t \in Threads |-> "none"]
    /\ att = [t \in Threads |-> 0]
    /\ cur = [t \in Threads |-> 0]
    /\ todo = <<>>
    /\ faults = 0 /\ starts = 0
    /\ batch = [t \in Threads |-> <<>>]
    /\ startBuf = [t \in Threads |-> <<>>]
    /\ startWm = [t \in Threads |-> 0]
    /\ procBefore = [t \in Threads |-> 0]
    /\ subs = [t \in Threads |-> 0]
    /\ appended = {} /\ late = {} /\ preCrash = {}
    /\ fbOps = <<>> /\ fbBatch = <<>> /\ fbMade = FALSE
    /\ pendAtStart = <<>> /\ replayed = <<>> /\ didReplay = FALSE
    /\ fetched = FALSE /\ liveSeen = FALSE
    /\ catchFrom = 0 /\ catchTo = 0 /\ fed = <<>>
    /\ waitedOut = FALSE

Init == Constructed /\ call = NoCall

----------------------------------------------------------------------------
\* Entering flush_buffer with a non-empty buffer buf: the first attempt of
\* write_batch follows without suspension
EnterFlush(t, buf) ==
    /\ fl' = [fl EXCEPT ![t] = "try"]
    /\ att' = [att EXCEPT ![t] = 1]
    /\ startBuf' = [startBuf EXCEPT ![t] = buf]
    /\ startWm' = [startWm EXCEPT ![t] = watermark]

NoFlush == UNCHANGED <<fl, att, startBuf, startWm>>

\* flush_buffer returns: its locals are gone
LeaveFlush(t) ==
    /\ fl' = [fl EXCEPT ![t] = "none"]
    /\ att' = [att EXCEPT ![t] = 0]
    /\ cur' = [cur EXCEPT ![t] = 0]
    /\ batch' = [batch EXCEPT ![t] = <<>>]
    /\ startBuf' = [startBuf EXCEPT ![t] = <<>>]
    /\ startWm' = [startWm EXCEPT ![t] = 0]
    /\ procBefore' = [procBefore EXCEPT ![t] = 0]
    /\ subs' = [subs EXCEPT ![t] = 0]
    /\ fbOps' = <<>> /\ fbBatch' = <<>> /\ fbMade' = FALSE

\* periodic_flush leaving its loop after its first flush
Return_TimerOnce(t) ==
    IF t = Main
    THEN CASE pc[t] = "replay" -> "catchup"
           [] pc[t] = "final" -> "tasks"
           [] pc[t] \in {"cleanupf", "abortf"} -> "stopping"
           [] OTHER -> pc[t]
    ELSE IF t = Timer THEN "tdone"
    ELSE "idle"

\* where a coroutine continues when its flush_buffer call returns
Return(t) ==
    IF t = Main
    THEN CASE pc[t] = "replay" -> "catchup"
           [] pc[t] = "final" -> "tasks"
           [] pc[t] \in {"cleanupf", "abortf"} -> "stopping"
           [] OTHER -> pc[t]
    ELSE IF t = Timer THEN (IF running THEN "twait" ELSE "tdone")
    ELSE "idle"

\* where an exception that leaves flush_buffer ends up: process_message and
\* catch_up catch it, periodic_flush and cleanup do not, and run() goes
\* from process_pending to its finally clause
Propagated(t) ==
    IF t = Main
    THEN CASE pc[t] = "replay" -> "abort"
           [] pc[t] = "final" -> "tasks"
           [] pc[t] \in {"cleanupf", "abortf"} -> "stopping"
           [] OTHER -> pc[t]
    ELSE IF t = Timer THEN "tdone"
    ELSE "idle"

\* a raised GoogleDocsError: tenacity sleeps and retries, or gives up
AttemptFailed(t) ==
    IF att[t] < MaxAttempts
    THEN /\ fl' = [fl EXCEPT ![t] = "wait"]
         /\ att' = [att EXCEPT ![t] = att[t] + 1]
    ELSE /\ fl' = [fl EXCEPT ![t] = "failed"]
         /\ att' = att

CountFault == faults' = IF faults < MaxFaults THEN faults + 1 ELSE faults

\* memory of a process that is gone
Forget ==
    /\ buffer' = <<>> /\ running' = FALSE
    /\ pc' = [t \in Threads |-> IdlePc(t)]
    /\ fl' = [t \in Threads |-> "none"]
    /\ att' = [t \in Threads |-> 0]
    /\ cur' = [t \in Threads |-> 0]
    /\ todo' = <<>>
    /\ batch' = [t \in Threads |-> <<>>]
    /\ startBuf' = [t \in Threads |-> <<>>]
    /\ startWm' = [t \in Threads |-> 0]
    /\ procBefore' = [t \in Threads |-> 0]
    /\ subs' = [t \in Threads |-> 0]
    /\ appended' = {} /\ late' = {}
    /\ fbOps' = <<>> /\ fbBatch' = <<>> /\ fbMade' = FALSE
    /\ pendAtStart' = <<>> /\ replayed' = <<>> /\ didReplay' = FALSE
    /\ fetched' = FALSE /\ liveSeen' = FALSE
    /\ catchFrom' = 0 /\ catchTo' = 0 /\ fed' = <<>>
    /\ waitedOut' = FALSE

----------------------------------------------------------------------------
\* run(): test_connection, telegram.start

\* run(): process_pending comes first, catch_up second
AfterStart_SkipsReplay == "catchup"
AfterStart == "replay"
AfterReplay == "catchup"

Start ==
    /\ pc[Main] = "down" /\ starts < MaxStarts
    /\ starts' = starts + 1
    /\ \/ /\ doc' = InsertAt(doc, TEST, DocEndIndex(doc) - 1)
          /\ pc' = [pc EXCEPT ![Main] = AfterStart]
          /\ running' = TRUE
          /\ pendAtStart' = IF hasPending THEN PendingMessages(pending) ELSE <<>>
          /\ UNCHANGED faults
       \/ /\ faults < MaxFaults
          /\ faults' = faults + 1
          /\ UNCHANGED <<doc, pc, running, pendAtStart>>
    /\ UNCHANGED <<dbVars, chanMax, buffer, fl, att, cur, todo>>
    /\ UNCHANGED <<flushHist, fbHist, appended, late, preCrash, call>>
    /\ UNCHANGED <<replayed, didReplay, fetched, liveSeen, catchFrom, catchTo, fed, waitedOut>>

\* process_pending
GetPendingBatch == IF hasPending THEN pending ELSE <<>>

ProcessPending ==
    /\ pc[Main] = "replay" /\ fl[Main] = "none"
    /\ IF GetPendingBatch # <<>>
       THEN /\ buffer' = PendingMessages(GetPendingBatch)
            /\ replayed' = buffer' /\ didReplay' = TRUE
            /\ appended' = appended \cup Ids(buffer')
            /\ late' = late
            /\ EnterFlush(Main, buffer')
            /\ pc' = pc
       ELSE /\ pc' = [pc EXCEPT ![Main] = AfterReplay]
            /\ UNCHANGED <<buffer, replayed, didReplay, appended, late>>
            /\ NoFlush
    /\ UNCHANGED <<dbVars, envVars, running, cur, todo, batch, procBefore, subs, fbHist, preCrash, call>>
    /\ UNCHANGED <<pendAtStart, fetched, liveSeen, catchFrom, catchTo, fed, waitedOut>>

\* catch_up: if last_id
ShouldFetch_Always(lastId) == TRUE
ShouldFetch(lastId) == lastId # 0

\* get_messages_batch returns [] on any exception, catch_up returns and
\* run() goes on to create its tasks
AfterFetchFailed_Propagates == "cleanup"
AfterFetchFailed == "tasks"

\* catch_up: the fetch
CatchUp ==
    /\ pc[Main] = "catchup"
    /\ IF ShouldFetch(watermark)
       THEN \/ /\ fetched' = TRUE
               /\ catchFrom' = watermark /\ catchTo' = chanMax
               /\ todo' = Reverse(GetMessagesBatch(watermark, CatchUpLimit))
               /\ pc' = [pc EXCEPT ![Main] = IF todo' = <<>> THEN "tasks" ELSE "feed"]
               /\ UNCHANGED faults
            \/ /\ faults < MaxFaults
               /\ faults' = faults + 1
               /\ fetched' = TRUE
               /\ pc' = [pc EXCEPT ![Main] = AfterFetchFailed]
               /\ UNCHANGED <<todo, catchFrom, catchTo>>
       ELSE /\ pc' = [pc EXCEPT ![Main] = "tasks"]
            /\ UNCHANGED <<todo, fetched, catchFrom, catchTo, faults>>
    /\ UNCHANGED <<dbVars, doc, chanMax, starts, buffer, running, fl, att, cur>>
    /\ UNCHANGED <<flushHist, fbHist, appended, late, preCrash, call>>
    /\ UNCHANGED <<pendAtStart, replayed, didReplay, liveSeen, fed, waitedOut>>

\* process_message: len(self.message_buffer) >= self.settings.batch_size
ShouldFlush_Above(buf) == Len(buf) > BatchSize
ShouldFlush(buf) == Len(buf) >= BatchSize

\* catch_up: process_message for one fetched message
Feed ==
    /\ pc[Main] = "feed" /\ fl[Main] = "none" /\ todo # <<>>
    /\ buffer' = Append(buffer, Head(todo))
    /\ todo' = Tail(todo)
    /\ fed' = Append(fed, Head(todo))
    /\ appended' = appended \cup {Head(todo)}
    /\ late' = late
    /\ IF ShouldFlush(buffer') THEN EnterFlush(Main, buffer') ELSE NoFlush
    /\ UNCHANGED <<dbVars, envVars, running, pc, cur, batch, procBefore, subs, fbHist, preCrash, call>>
    /\ UNCHANGED <<pendAtStart, replayed, didReplay, fetched, liveSeen, catchFrom, catchTo, waitedOut>>

\* catch_up: flush any remaining
FeedDone ==
    /\ pc[Main] = "feed" /\ fl[Main] = "none" /\ todo = <<>>
    /\ IF buffer # <<>>
       THEN /\ pc' = [pc EXCEPT ![Main] = "final"]
            /\ EnterFlush(Main, buffer)
       ELSE /\ pc' = [pc EXCEPT ![Main] = "tasks"]
            /\ NoFlush
    /\ UNCHANGED <<dbVars, envVars, buffer, running, cur, todo, batch, procBefore, subs>>
    /\ UNCHANGED <<fbHist, runHist, appended, late, preCrash, call>>

\* run(): create_task(periodic_flush), create_task(listen_channel)
StartTasks ==
    /\ pc[Main] = "tasks"
    /\ pc' = [pc EXCEPT ![Main] = "live", ![Timer] = IF running THEN "twait" ELSE "tdone"]
    /\ catchFrom' = 0 /\ catchTo' = 0 /\ fed' = <<>>
    /\ UNCHANGED <<dbVars, envVars, buffer, running, fl, att, cur, todo>>
    /\ UNCHANGED <<flushHist, fbHist, appended, late, preCrash, call>>
    /\ UNCHANGED <<pendAtStart, replayed, didReplay, fetched, liveSeen, waitedOut>>

----------------------------------------------------------------------------
\* a message is posted in the channel while no handler is registered
PostMissed ==
    /\ ~Listening /\ chanMax < MaxMsgId
    /\ chanMax' = chanMax + 1
    /\ UNCHANGED <<dbVars, doc, faults, starts, procVars, histVars, call>>

\* a message is posted and the handler calls process_message; the handler
\* tasks are alike, the first idle one stands for the new task
PostLive ==
    /\ Listening /\ NoMid /\ chanMax < MaxMsgId
    /\ chanMax' = chanMax + 1
    /\ buffer' = Append(buffer, chanMax')
    /\ appended' = appended \cup {chanMax'}
    /\ late' = IF \E t \in Threads : fl[t] = "wait" THEN late \cup {chanMax'} ELSE late
    /\ liveSeen' = TRUE
    /\ IF ShouldFlush(buffer')
       THEN \E h \in Handlers :
               /\ pc[h] = "idle" /\ \A g \in Handlers : pc[g] = "idle" => h <= g
               /\ pc' = [pc EXCEPT ![h] = "hflush"]
               /\ EnterFlush(h, buffer')
       ELSE /\ pc' = pc /\ NoFlush
    /\ UNCHANGED <<dbVars, doc, faults, starts, running, cur, todo>>
    /\ UNCHANGED <<batch, procBefore, subs, fbHist, preCrash, call>>
    /\ UNCHANGED <<pendAtStart, replayed, didReplay, fetched, catchFrom, catchTo, fed, waitedOut>>

\* periodic_flush: the wait timed out
Timeout ==
    /\ pc[Timer] = "twait" /\ NoMid /\ running /\ buffer # <<>>
    /\ pc' = [pc EXCEPT ![Timer] = "tflush"]
    /\ EnterFlush(Timer, buffer)
    /\ UNCHANGED <<dbVars, envVars, buffer, running, cur, todo, batch, procBefore, subs>>
    /\ UNCHANGED <<fbHist, runHist, appended, late, preCrash, call>>

\* _handle_shutdown, installed with signal.signal: it clears running and
\* sets the shutdown event but does not wake the selector of the event
\* loop.  The coroutines waiting for the event resume at the next turn of
\* the loop: one caused by network traffic, or, with none, the one at which
\* the timeout of the timer's own wait_for falls due.
WokenBy(timerWaits) == IF timerWaits THEN {"traffic", "timeout"} ELSE {"traffic"}

Signal ==
    /\ pc[Main] = "live" /\ NoMid /\ running
    /\ running' = FALSE
    /\ pc' = [pc EXCEPT ![Main] = "cleanup",
                        ![Timer] = IF pc[Timer] = "twait" THEN "tdone" ELSE pc[Timer]]
    /\ \E by \in WokenBy(pc[Timer] = "twait") : waitedOut' = (by = "timeout")
    /\ UNCHANGED <<dbVars, envVars, buffer, fl, att, cur, todo>>
    /\ UNCHANGED <<flushHist, fbHist, appended, late, preCrash, call>>
    /\ UNCHANGED <<pendAtStart, replayed, didReplay, fetched, liveSeen, catchFrom, catchTo, fed>>

\* cleanup: final flush
Cleanup ==
    /\ pc[Main] \in {"cleanup", "abort"} /\ NoMid
    /\ IF buffer # <<>>
       THEN /\ pc' = [pc EXCEPT ![Main] = IF pc[Main] = "cleanup" THEN "cleanupf" ELSE "abortf"]
            /\ EnterFlush(Main, buffer)
       ELSE /\ pc' = [pc EXCEPT ![Main] = "stopping"]
            /\ NoFlush
    /\ waitedOut' = FALSE
    /\ UNCHANGED <<dbVars, envVars, buffer, running, cur, todo, batch, procBefore, subs>>
    /\ UNCHANGED <<fbHist, appended, late, preCrash, call>>
    /\ UNCHANGED <<pendAtStart, replayed, didReplay, fetched, liveSeen, catchFrom, catchTo, fed>>

\* cleanup: telegram.stop, state.close; asyncio.run cancels what is left
Exit ==
    /\ pc[Main] = "stopping" /\ NoMid
    /\ Forget
    /\ UNCHANGED <<dbVars, envVars, preCrash, call>>

\* the process is killed
Crash ==
    /\ Up
    /\ preCrash' = preCrash \cup appended
    /\ Forget
    /\ UNCHANGED <<dbVars, envVars, call>>

\* somebody else types into the shared document.  Every attempt reads the
\* end of the document anew, so only an edit that lands between that read
\* and the fallback submission of the same attempt can matter, and only one
\* that is long enough to bring the footer position inside the document.
RECURSIVE Typed(_)
Typed(n) == IF n = 0 THEN <<>> ELSE <<EXT>> \o Typed(n - 1)

ExtEdit ==
    /\ faults < MaxFaults
    /\ faults' = faults + 1
    /\ \E t \in Threads :
          /\ fl[t] = "rejected"
          /\ doc' = doc \o Typed(TotalLength(buffer) + Length(HDR))
    /\ UNCHANGED <<dbVars, chanMax, starts, procVars, histVars, call>>

----------------------------------------------------------------------------
\* a cursor read by the first attempt and kept by the retries
StartCursor_Kept(d, earlier) == IF earlier = 0 THEN DocEndIndex(d) - 1 ELSE earlier

\* write_batch: current_length - 1 of the document just fetched; earlier is
\* the cursor of the attempt before, which is not looked at
StartCursor(d, earlier) == DocEndIndex(d) - 1

\* write_batch, one attempt: documents().get
GetDoc(t) ==
    /\ fl[t] = "try" \/ (fl[t] = "wait" /\ NoMid)
    /\ \/ /\ cur' = [cur EXCEPT ![t] = StartCursor(doc, cur[t])]
          /\ fl' = [fl EXCEPT ![t] = "got"]
          /\ UNCHANGED <<att, faults>>
       \/ /\ faults < MaxFaults
          /\ CountFault
          /\ AttemptFailed(t)
          /\ cur' = cur
    /\ UNCHANGED <<dbVars, doc, chanMax, starts, buffer, running, pc, todo>>
    /\ UNCHANGED <<histVars, call>>

\* write_batch, one attempt: batchUpdate of all_requests
SubmitStyled(t) ==
    /\ fl[t] = "got"
    /\ batch' = [batch EXCEPT ![t] = buffer]
    /\ subs' = [subs EXCEPT ![t] = subs[t] + 1]
    /\ LET reqs == BatchRequests(buffer, cur[t]) IN
       \/ /\ ValidRequests(doc, reqs)
          /\ doc' = ApplyRequests(doc, reqs)
          /\ fl' = [fl EXCEPT ![t] = "wrote"]
          /\ procBefore' = [procBefore EXCEPT ![t] = processed]
          /\ UNCHANGED <<att, faults>>
       \/ /\ faults < MaxFaults \/ ~ValidRequests(doc, reqs)
          /\ CountFault
          /\ fl' = [fl EXCEPT ![t] = "rejected"]
          /\ UNCHANGED <<doc, att, procBefore>>
       \/ /\ faults < MaxFaults
          /\ CountFault
          /\ AttemptFailed(t)
          /\ UNCHANGED <<doc, procBefore>>
    /\ UNCHANGED <<dbVars, chanMax, starts, buffer, running, pc, cur, todo>>
    /\ UNCHANGED <<startBuf, startWm, fbHist, runHist, appended, late, preCrash, call>>

\* write_batch, one attempt: batchUpdate of fallback_requests
SubmitFallback(t) ==
    /\ fl[t] = "rejected"
    /\ fbOps' = FallbackRequests(buffer, cur[t])
    /\ fbBatch' = buffer
    /\ fbMade' = TRUE
    /\ subs' = [subs EXCEPT ![t] = subs[t] + 1]
    /\ LET reqs == FallbackRequests(buffer, cur[t]) IN
       \/ /\ ValidRequests(doc, reqs)
          /\ doc' = ApplyRequests(doc, reqs)
          /\ fl' = [fl EXCEPT ![t] = "wrote"]
          /\ procBefore' = [procBefore EXCEPT ![t] = processed]
          /\ UNCHANGED <<att, faults>>
       \/ /\ faults < MaxFaults \/ ~ValidRequests(doc, reqs)
          /\ CountFault
          /\ AttemptFailed(t)
          /\ UNCHANGED <<doc, procBefore>>
    /\ UNCHANGED <<dbVars, chanMax, starts, buffer, running, pc, cur, todo>>
    /\ UNCHANGED <<batch, startBuf, startWm, runHist, appended, late, preCrash, call>>

\* flush_buffer after success: last_message = buffer[-1], set_last_message_id
SetWatermark(t) ==
    /\ fl[t] = "wrote"
    /\ IF buffer # <<>>
       THEN /\ watermark' = SetLastMessageId(buffer)
            /\ fl' = [fl EXCEPT ![t] = "marked"]
       ELSE /\ fl' = [fl EXCEPT ![t] = "raised"]
            /\ watermark' = watermark
    /\ UNCHANGED <<pending, hasPending, processed, errors, envVars>>
    /\ UNCHANGED <<buffer, running, pc, att, cur, todo, histVars, call>>

\* flush_buffer after success: update_stats(processed=len(buffer))
UpdateStats(t) ==
    /\ fl[t] = "marked"
    /\ processed' = StatsProcessed(processed, buffer)
    /\ fl' = [fl EXCEPT ![t] = "counted"]
    /\ UNCHANGED <<watermark, pending, hasPending, errors, envVars>>
    /\ UNCHANGED <<buffer, running, pc, att, cur, todo, histVars, call>>

\* flush_buffer after success: buffer.clear(), clear_pending_batch()
ClearBuffer(t) ==
    /\ fl[t] = "counted"
    /\ buffer' = <<>>
    /\ pending' = <<>> /\ hasPending' = FALSE
    /\ LeaveFlush(t)
    /\ pc' = [pc EXCEPT ![t] = Return(t)]
    /\ UNCHANGED <<watermark, processed, errors, envVars>>
    /\ UNCHANGED <<running, todo, runHist, appended, late, preCrash, call>>

\* the except branch dropping what it could not write
Retained_Dropped(buf) == <<>>

\* flush_buffer, except branch: self.message_buffer is passed to
\* save_pending_batch and otherwise left alone
Retained(buf) == buf

\* flush_buffer, except branch: save_pending_batch(buffer)
Stage(t) ==
    /\ fl[t] \in {"failed", "raised"}
    /\ pending' = SavePendingBatch(buffer) /\ hasPending' = TRUE
    /\ fl' = [fl EXCEPT ![t] = "staged"]
    /\ UNCHANGED <<watermark, processed, errors, envVars>>
    /\ UNCHANGED <<buffer, running, pc, att, cur, todo, histVars, call>>

\* flush_buffer, except branch: save_pending_batch raises; the exception
\* leaves flush_buffer before update_stats
StageFailed(t) ==
    /\ fl[t] \in {"failed", "raised"}
    /\ LeaveFlush(t)
    /\ pc' = [pc EXCEPT ![t] = Propagated(t)]
    /\ buffer' = Retained(buffer)
    /\ UNCHANGED <<dbVars, envVars>>
    /\ UNCHANGED <<running, todo, runHist, appended, late, preCrash, call>>

\* flush_buffer, except branch: update_stats(error=True)
CountError(t) ==
    /\ fl[t] = "staged"
    /\ errors' = errors + 1
    /\ LeaveFlush(t)
    /\ pc' = [pc EXCEPT ![t] = Return(t)]
    /\ buffer' = Retained(buffer)
    /\ UNCHANGED <<watermark, pending, hasPending, processed, envVars>>
    /\ UNCHANGED <<running, todo, runHist, appended, late, preCrash, call>>

FlushStep ==
    \E t \in Threads :
        \/ GetDoc(t) \/ SubmitStyled(t) \/ SubmitFallback(t)
        \/ SetWatermark(t) \/ UpdateStats(t) \/ ClearBuffer(t)
        \/ Stage(t) \/ StageFailed(t) \/ CountError(t)

Next ==
    \/ Start \/ ProcessPending \/ CatchUp \/ Feed \/ FeedDone \/ StartTasks
    \/ PostMissed \/ PostLive \/ Timeout \/ Signal \/ Cleanup \/ Exit
    \/ Crash \/ ExtEdit
    \/ FlushStep

Spec == Init /\ [][Next]_vars

\* the event loop fires the timeout of periodic_flush's wait_for once
\* check_interval has passed
FairSpec == Spec /\ WF_vars(Timeout)

\* A process started on what an earlier run has left behind: that run wrote
\* message 1, failed to write message 2, staged it and was killed
RestartInit ==
    /\ watermark = 1 /\ pending = SavePendingBatch(<<2>>) /\ hasPending = TRUE
    /\ processed = 1 /\ errors = 0
    /\ doc = <<TEST, HDR, 1, FTR>> /\ chanMax = 2
    /\ buffer = <<>> /\ running = FALSE
    /\ pc = [t \in Threads |-> IdlePc(t)]
    /\ fl = [t \in Threads |-> "none"]
    /\ att = [t \in Threads |-> 0]
    /\ cur = [t \in Threads |-> 0]
    /\ todo = <<>>
    /\ faults = 0 /\ starts = 1
    /\ batch = [t \in Threads |-> <<>>]
    /\ startBuf = [t \in Threads |-> <<>>]
    /\ startWm = [t \in Threads |-> 0]
    /\ procBefore = [t \in Threads |-> 0]
    /\ subs = [t \in Threads |-> 0]
    /\ appended = {} /\ late = {} /\ preCrash = {1, 2}
    /\ fbOps = <<>> /\ fbBatch = <<>> /\ fbMade = FALSE
    /\ pendAtStart = <<>> /\ replayed = <<>> /\ didReplay = FALSE
    /\ fetched = FALSE /\ liveSeen = FALSE
    /\ catchFrom = 0 /\ catchTo = 0 /\ fed = <<>>
    /\ waitedOut = FALSE
    /\ call = NoCall

RestartSpec == RestartInit /\ [][Next]_vars

\* A process in the middle of a run: message 1 is buffered, periodic_flush
\* has started a flush whose first attempt has failed, and tenacity sleeps
\* before the second attempt
RetryInit ==
    /\ watermark = 0 /\ pending = <<>> /\ hasPending = FALSE
    /\ processed = 0 /\ errors = 0
    /\ doc = <<TEST>> /\ chanMax = 1
    /\ buffer = <<1>> /\ running = TRUE
    /\ pc = [t \in Threads |-> IF t = Main THEN "live" ELSE IF t = Timer THEN "tflush" ELSE "idle"]
    /\ fl = [t \in Threads |-> IF t = Timer THEN "wait" ELSE "none"]
    /\ att = [t \in Threads |-> IF t = Timer THEN 2 ELSE 0]
    /\ cur = [t \in Threads |-> 0]
    /\ todo = <<>>
    /\ faults = 0 /\ starts = 1
    /\ batch = [t \in Threads |-> <<>>]
    /\ startBuf = [t \in Threads |-> IF t = Timer THEN <<1>> ELSE <<>>]
    /\ startWm = [t \in Threads |-> 0]
    /\ procBefore = [t \in Threads |-> 0]
    /\ subs = [t \in Threads |-> 0]
    /\ appended = {1} /\ late = {} /\ preCrash = {}
    /\ fbOps = <<>> /\ fbBatch = <<>> /\ fbMade = FALSE
    /\ pendAtStart = <<>> /\ replayed = <<>> /\ didReplay = FALSE
    /\ fetched = FALSE /\ liveSeen = TRUE
    /\ catchFrom = 0 /\ catchTo = 0 /\ fed = <<>>
    /\ waitedOut = FALSE
    /\ call = NoCall

RetrySpec == RetryInit /\ [][Next]_vars

\* write_batch is handed a message list and fetches a document
ComposeInit ==
    Constructed /\ call \in {Prepared([lens |-> ls, current_length |-> e]) :
                                ls \in LengthLists(MaxBatch), e \in 2..MaxEndIndex}

ComposeBatch ==
    /\ call.fn = "none"
    /\ call' = [fn |-> "write_batch", arg |-> call.arg,
                ret |-> Returned(AllRequests(call.arg.lens, call.arg.current_length))]
    /\ UNCHANGED progVars

ComposeNext == ComposeBatch

ComposeSpec == ComposeInit /\ [][ComposeNext]_vars

\* test_handlers.py: a message object is built, then the handler is imported
\* and awaited on it
HandlerInit == Constructed /\ call \in {Prepared(m) : m \in Messages}

HandleNewMessage ==
    /\ call.fn = "none"
    /\ call' = [fn |-> "handle_new_message", arg |-> call.arg,
                ret |-> handle_new_message(call.arg)]
    /\ UNCHANGED progVars

HandlerNext == HandleNewMessage

HandlerSpec == HandlerInit /\ [][HandlerNext]_vars

\* a text is handed to one of the two link functions
LinkInit == Constructed /\ call \in {Prepared(t) : t \in Texts}

CleanUrl ==
    /\ call.fn = "none"
    /\ call' = [fn |-> "_clean_url", arg |-> call.arg, ret |-> Returned(_clean_url(call.arg))]
    /\ UNCHANGED progVars

ExtractLinks ==
    /\ call.fn = "none"
    /\ call' = [fn |-> "_extract_links", arg |-> call.arg,
                ret |-> Returned(_extract_links(call.arg))]
    /\ UNCHANGED progVars

LinkNext == CleanUrl \/ ExtractLinks

LinkSpec == LinkInit /\ [][LinkNext]_vars

\* a list of one message, or of two messages one of which has no optional
\* section or all of them, is to be written to a document that ends at
\* current_length
LayoutInit ==
    Constructed /\ call \in {Prepared([messages |-> ms, current_length |-> e]) :
                                ms \in {<<m>> : m \in LayoutMessages}
                                       \cup {<<m, n>> : m \in LayoutMessages, n \in LayoutEnds}
                                       \cup {<<n, m>> : m \in LayoutMessages, n \in LayoutEnds},
                                e \in 2..MaxEndIndex}

\* write_message composes its message at current_length - 1
ComposeMessage ==
    /\ call.fn = "none"
    /\ call' = [fn |-> "_create_formatted_message_requests", arg |-> call.arg,
                ret |-> Returned(_create_formatted_message_requests(
                                     Head(call.arg.messages), call.arg.current_length - 1))]
    /\ UNCHANGED progVars

\* write_batch composes its request list
ComposeStyled ==
    /\ call.fn = "none"
    /\ call' = [fn |-> "write_batch", arg |-> call.arg,
                ret |-> Returned(StyledRequests(call.arg.messages, call.arg.current_length))]
    /\ UNCHANGED progVars

LayoutNext == ComposeMessage \/ ComposeStyled

LayoutSpec == LayoutInit /\ [][LayoutNext]_vars

\* StateManager is constructed for a path, with the directory as an earlier
\* run or something else left it, and an operating system that allows or
\* refuses the first open, the deletions and the second open
OpenInit ==
    Constructed /\ call \in UNION {{Prepared([path |-> DbPath(s), disk |-> d, opens |-> o,
                                                unlinks |-> u, reopens |-> r]) :
                                          d \in Disks(DbPath(s)),
                                          o \in BOOLEAN, u \in BOOLEAN, r \in BOOLEAN} :
                                      s \in Suffixes}

OpenDb ==
    /\ call.fn = "none"
    /\ call' = [fn |-> "_open_db", arg |-> call.arg, ret |-> _open_db(call.arg)]
    /\ UNCHANGED progVars

OpenNext == OpenDb

OpenSpec == OpenInit /\ [][OpenNext]_vars

\* write_batch is called with a list of messages, some of which cannot be
\* composed, on a document that accepts every submission
BrokenInit ==
    Constructed /\ call \in {Prepared([messages |-> ms, broken |-> b, current_length |-> e]) :
                                ms \in IdLists, b \in SUBSET (1..MaxMsgId), e \in 2..MaxEndIndex}

WriteBroken ==
    /\ call.fn = "none"
    /\ call' = [fn |-> "write_batch", arg |-> call.arg,
                ret |-> Retried(call.arg.messages, call.arg.broken,
                                call.arg.current_length - 1, 1)]
    /\ UNCHANGED progVars

BrokenNext == WriteBroken

BrokenSpec == BrokenInit /\ [][BrokenNext]_vars

TypeOK ==
    /\ watermark \in 0..MaxMsgId
    /\ Cardinality({t \in Threads : Mid(t)}) <= 1
    /\ faults \in 0..MaxFaults

----------------------------------------------------------------------------
\* Observations used by the properties

InDoc(m) == m \in Ids(doc)
InBuffer(m) == m \in Ids(buffer)
InPending(m) == m \in Ids(PendingMessages(GetPendingBatch))
FlushingThreads == {t \in Threads : InFlush(t)}
IsInsert(r) == r.op = "insert"
IsMessageInsert(r) == r.op = "insert" /\ r.text > 0
TextsOf(rs) == [i \in 1..Len(rs) |-> rs[i].text]
MessageTexts(rs) == TextsOf(SelectSeq(rs, IsMessageInsert))
Range(a, b) == [i \in 1..(b - a) |-> a + i]

\* C1: every message appended to the buffer in this process lifetime is in
\* the buffer, in the persisted pending batch or in the document
C1_NoSilentDrop ==
    \A m \in appended : InBuffer(m) \/ InPending(m) \/ InDoc(m)

\* C2: the stored watermark changes only in the step of a flush that follows
\* a successful write_batch of the current buffer, and the new value is the
\* id of a message of the batch that was written
C2_WatermarkOnlyOnSuccess ==
    [][watermark' # watermark =>
        \E t \in Threads :
            /\ fl[t] = "wrote" /\ fl'[t] = "marked"
            /\ batch[t] = buffer
            /\ watermark' \in Ids(batch[t])]_vars

C2_Witness ==
    \E t \in Threads : fl[t] = "marked" /\ batch[t] # <<>> /\ watermark = Last(batch[t])

\* C3: the stored watermark never decreases
C3_WatermarkMonotone == [][watermark' >= watermark]_vars

C5_DegradedSubmission ==
    fbMade =>
        /\ MessageTexts(fbOps) = fbBatch
        /\ \A i \in 1..Len(fbOps) : IsInsert(fbOps[i])

\* C6: when a pending batch is found at start, its messages are loaded into
\* the buffer in their order and a flush of them is started, before any
\* history fetch and before any live message is accepted
C6_ReplayFirst ==
    /\ []((pendAtStart # <<>> /\ (fetched \/ liveSeen)) =>
            (didReplay /\ replayed = pendAtStart))
    /\ [][(didReplay' /\ ~didReplay) =>
            /\ buffer' = pendAtStart /\ pendAtStart # <<>>
            /\ fl'[Main] = "try" /\ startBuf'[Main] = pendAtStart
            /\ ~fetched' /\ ~liveSeen']_vars

C6_Witness ==
    /\ pendAtStart # <<>> /\ didReplay /\ replayed = pendAtStart
    /\ fetched /\ liveSeen

\* C7: after a successful fetch with watermark w, catch_up feeds every
\* channel message with id above w, oldest first
C7_CatchUpComplete ==
    (pc[Main] \in {"feed", "final", "tasks"} /\ catchFrom > 0) =>
        fed \o todo = Range(catchFrom, catchTo)

\* C8: after a crash, restart, process_pending and catch_up, every message
\* ingested before the crash is in the document or in the buffer
C8_NoLossAfterCrash ==
    pc[Main] = "live" => \A m \in preCrash : InDoc(m) \/ InBuffer(m)

\* C9: the step that completes a flush after a successful write of the
\* batch B leaves the watermark at the id of the last message of B, no
\* pending record, total_processed grown by the length of B and an empty
\* buffer
C9_SuccessfulFlush ==
    [][\A t \in Threads :
        (fl[t] = "counted" /\ fl'[t] = "none" /\ Up') =>
            /\ batch[t] # <<>>
            /\ watermark' = Last(batch[t])
            /\ ~hasPending' /\ pending' = <<>>
            /\ processed' = procBefore[t] + Len(batch[t])
            /\ buffer' = <<>>]_vars

C9_Witness ==
    /\ Up /\ NoMid /\ buffer = <<>> /\ ~hasPending
    /\ errors > 0 /\ processed >= 2 /\ watermark = chanMax /\ watermark >= 2

\* C10: at most one flush_buffer execution is in progress
C10_OneFlushAtATime == Cardinality(FlushingThreads) <= 1

----------------------------------------------------------------------------
\* the message sections of a document, in document order
IsSection(x) == x > 0
Sections(d) == SelectSeq(d, IsSection)

\* s lists its messages in ascending order of first appearance: a message
\* that follows a later one is a repetition of an earlier entry
Ordered(s) ==
    \A i, j \in 1..Len(s) :
        (i < j /\ s[j] < s[i]) => \E k \in 1..(i - 1) : s[k] = s[j]

\* C11: ids follow the order in which the channel posted the messages, the
\* buffer takes the messages in that order, every written batch appends the
\* sections of the buffer to the document in buffer order, and so no message
\* is first written after a message that was buffered later than it
C11_BufferOrder ==
    /\ [](Ordered(buffer) /\ Ordered(Sections(doc)))
    /\ [][\A t \in Threads :
            (fl[t] = "got" /\ fl'[t] = "wrote") =>
                Sections(doc') = Sections(doc) \o buffer]_vars

C11_Witness ==
    /\ Len(Sections(doc)) >= 3
    /\ \E i, j \in 1..Len(doc) : i < j /\ doc[i] = FTR /\ doc[j] > 0
    /\ \E i \in 1..(Len(doc) - 1) : doc[i] > 0 /\ doc[i + 1] > 0

\* C12: a flush is entered only with a non-empty buffer, and no batchUpdate
\* is submitted for an empty message list
C12_NoEmptyBatch ==
    \A t \in Threads :
        /\ fl[t] = "try" /\ att[t] = 1 => startBuf[t] # <<>>
        /\ subs[t] > 0 => batch[t] # <<>>

\* C13: the request list write_batch composes for an empty message list is
\* empty: no banner, no footer, no style request
C13_EmptyBatchNoRequests ==
    \A t \in Threads :
        (fl[t] = "got" /\ buffer = <<>>) => BatchRequests(buffer, cur[t]) = <<>>

\* C14: one flush_buffer call makes at most MaxAttempts batchUpdate
\* submissions, styled and fallback submissions counted together
C14_SubmissionsBounded == \A t \in Threads : subs[t] <= MaxAttempts

\* C15: a step in which process_message appends a message starts a flush of
\* the whole buffer when the buffer has reached batch_size, and otherwise
\* starts no flush and makes no remote call
C15_SizeTrigger ==
    [][(pc[Main] # "replay" /\ Len(buffer') = Len(buffer) + 1) =>
        IF Len(buffer') >= BatchSize
        THEN \E t \in Threads :
                /\ fl[t] = "none" /\ fl'[t] = "try" /\ att'[t] = 1
                /\ startBuf'[t] = buffer'
        ELSE fl' = fl /\ att' = att /\ subs' = subs /\ doc' = doc]_vars

C15_Witness ==
    \E h \in Handlers :
        /\ pc[h] = "hflush" /\ fl[h] = "try" /\ att[h] = 1
        /\ Len(buffer) >= BatchSize /\ startBuf[h] = buffer

\* the process is up and listening, messages are buffered and no flush of
\* them is in progress
Quiet ==
    /\ pc[Main] = "live" /\ running
    /\ buffer # <<>>
    /\ \A t \in Threads : fl[t] = "none"

\* C16: with a fair timer the process does not stay for ever with buffered
\* messages and no flush attempt: while it keeps running, periodic_flush
\* starts a flush of the whole buffer, also after earlier flushes have failed
C16_TimerFlushes ==
    /\ []<>(~Quiet)
    /\ [][(pc[Timer] = "twait" /\ pc'[Timer] = "tflush") =>
            /\ buffer # <<>> /\ startBuf'[Timer] = buffer
            /\ fl'[Timer] = "try"]_vars

C16_Witness ==
    /\ pc[Main] = "live" /\ running /\ errors > 0
    /\ pc[Timer] = "tflush" /\ fl[Timer] = "try" /\ att[Timer] = 1
    /\ startBuf[Timer] = buffer /\ buffer # <<>>

C18_TimerPreempted ==
    /\ []((Up /\ ~running) => (pc[Timer] # "twait" /\ ~waitedOut))
    /\ [][(Up /\ ~running) =>
            /\ pc[Timer] # "tflush" => pc'[Timer] # "tflush"
            /\ (pc[Timer] = "tflush" /\ fl'[Timer] = "none" /\ Up') => pc'[Timer] = "tdone"]_vars

\* C19: a catch-up fetch that fails is absorbed: the step leaves the buffer,
\* the watermark and the pending record as they were, nothing is fed, and
\* run() stands before the creation of the periodic flush and the listener,
\* which it can always go on to
C19_FetchFailureAbsorbed ==
    /\ [](pc[Main] = "tasks" => ENABLED StartTasks)
    /\ [][(pc[Main] = "catchup" /\ faults' # faults) =>
            /\ buffer' = buffer /\ todo' = todo /\ fed' = fed
            /\ watermark' = watermark
            /\ pending' = pending /\ hasPending' = hasPending
            /\ pc'[Main] = "tasks" /\ running']_vars

C19_Witness ==
    /\ pc[Main] = "tasks" /\ fetched /\ catchFrom = 0
    /\ watermark > 0 /\ chanMax > watermark /\ todo = <<>>

\* C20: with no watermark stored catch_up makes no history fetch, buffers
\* nothing and changes no state, whatever the channel holds
C20_NoBackfillOnFreshStart ==
    [][(pc[Main] = "catchup" /\ pc'[Main] # "catchup" /\ watermark = 0 /\ Up') =>
        /\ fetched' = fetched /\ todo' = <<>> /\ fed' = fed
        /\ buffer' = buffer /\ appended' = appended
        /\ UNCHANGED <<dbVars, envVars>>
        /\ pc'[Main] = "tasks"]_vars

C20_Witness ==
    /\ pc[Main] = "tasks" /\ watermark = 0 /\ ~fetched
    /\ chanMax > 0 /\ buffer = <<>> /\ todo = <<>>

\* C21: handle_new_message called on a message object returns a record whose
\* id and text are the object's, and returns None instead of raising when
\* handling fails
C21_HandlerResult ==
    call.fn = "handle_new_message" =>
        /\ call.ret.kind # "raised"
        /\ (call.arg.id.has /\ call.arg.text.has) =>
            /\ call.ret.kind = "returned"
            /\ call.ret.val.id = call.arg.id.val
            /\ call.ret.val.text = call.arg.text.val


\* s is a prefix of u
IsPrefix(s, u) == Len(s) <= Len(u) /\ \A i \in 1..Len(s) : u[i] = s[i]

\* C22: a flush that fails leaves the buffer as it is, whether or not the
\* staging write succeeds; while the process lives the buffer only grows at
\* its end or is emptied by the step that follows a confirmed write, and the
\* next flush starts from the whole buffer: the retained messages followed
\* by the newer ones
C22_BufferRetained ==
    [][Up' =>
        /\ (\E t \in Threads : fl[t] \in {"failed", "raised", "staged"}) =>
              buffer' = buffer
        /\ (\E t \in Threads : att[t] > 0 /\ att'[t] > att[t]) => buffer' = buffer
        /\ buffer' # buffer =>
              \/ IsPrefix(buffer, buffer')
              \/ buffer' = <<>> /\ \E t \in Threads : fl[t] = "counted" /\ fl'[t] = "none"
        /\ \A t \in Threads :
              (fl[t] = "none" /\ fl'[t] = "try") => startBuf'[t] = buffer']_vars

\* a flush failed and its staging write failed too (the exception ended
\* periodic_flush); the kept message and two newer ones are flushed together
C22_Witness ==
    /\ pc[Main] = "live" /\ running /\ pc[Timer] = "tdone"
    /\ ~hasPending /\ errors = 0 /\ Len(doc) = 1
    /\ \E h \in Handlers :
          /\ fl[h] = "try" /\ startBuf[h] = buffer
          /\ Len(buffer) = BatchSize

\* the pending record found at start has been handled by process_pending
PendingLoaded == Up /\ (pc[Main] # "replay" \/ didReplay)

C24_NoDuplicateIds ==
    \A i, j \in 1..Len(buffer) : buffer[i] = buffer[j] => i = j

\* the largest message id the document holds, 0 if it holds none
LargestWritten(d) ==
    IF Ids(Sections(d)) = {} THEN 0
    ELSE CHOOSE m \in Ids(Sections(d)) : \A n \in Ids(Sections(d)) : n <= m

\* C25: when a successful flush returns, the watermark is the largest id
\* among the messages written to the document so far
C25_WatermarkIsLargestWritten ==
    [][\A t \in Threads :
          (fl[t] = "counted" /\ fl'[t] = "none" /\ Up') =>
              watermark' = LargestWritten(doc')]_vars

\* C26: a message appended while a flush waited between two attempts is
\* never lost: it is in the buffer, in the pending record, or written to the
\* document by the attempt whose batch took it in
C26_LateMessageKept ==
    \A m \in late : InBuffer(m) \/ InPending(m) \/ InDoc(m)

\* C27: every attempt of write_batch, retries included, has read the end of
\* the document as it is when the attempt submits, and its banner is the
\* insertion at that end; a cursor of an earlier attempt is never reused
C27_BannerAtTrueEnd ==
    \A t \in Threads :
        fl[t] = "got" =>
            /\ cur[t] = DocEndIndex(doc) - 1
            /\ Head(BatchRequests(buffer, cur[t])) = InsertRequest(HDR, Len(doc) + 1)

\* a retry submits after the document has grown since the first attempt:
\* the message the flush began with was written by another flush meanwhile
C27_Witness ==
    \E t \in Threads :
        /\ fl[t] = "got" /\ att[t] = 2
        /\ startBuf[t] # <<>> /\ InDoc(Head(startBuf[t]))
        /\ starts = 1 /\ cur[t] > 2

\* C28: every insertion of a submitted operation list, styled or fallback,
\* has an index inside the document as it stands when the insertion is
\* applied; nothing is inserted past the current end
C28_InsertionsInsideDocument ==
    [][\A t \in Threads :
          subs'[t] = subs[t] + 1 =>
              /\ fl[t] = "got" => ValidRequests(doc, BatchRequests(buffer, cur[t]))
              /\ fl[t] = "rejected" => ValidRequests(doc, FallbackRequests(buffer, cur[t]))]_vars

\* the insertions of an operation list, in list order
Insertions(rs) == SelectSeq(rs, IsInsert)

\* C29: in the operation list of write_batch the banner is inserted at the
\* end position p of the fetched document, message 1 at p plus the banner
\* length, every further message where the text before it ends, the footer
\* where the last message ends; the insertion indexes never decrease
C29_CursorThreaded ==
    call.fn = "write_batch" =>
        LET ins == Insertions(call.ret.val)
            n == Len(call.arg.lens)
        IN  /\ Len(ins) = n + 2
            /\ ins[1].text = Banner /\ ins[1].index = call.arg.current_length - 1
            /\ \A i \in 1..n : ins[i + 1].text = Rendered(i, call.arg.lens[i])
            /\ ins[n + 2].text = Footer
            /\ \A i \in 1..(n + 1) : ins[i + 1].index = ins[i].index + ins[i].text.len
            /\ \A i, j \in 1..(n + 2) : i <= j => ins[i].index <= ins[j].index

\* a full batch of messages of three different lengths has been composed
C29_Witness ==
    /\ call.fn = "write_batch" /\ call.arg.current_length > 2
    /\ Len(call.arg.lens) = MaxBatch
    /\ \A i, j \in 1..MaxBatch : i # j => call.arg.lens[i] # call.arg.lens[j]
    /\ Len(call.ret.val) = 2 * MaxBatch + 4

\* C30: a flush of n buffered messages, 1 <= n < batch_size, sends them in
\* one batchUpdate whose list holds one banner insertion, the n message
\* sections in buffer order and one footer insertion at non-decreasing
\* indexes; accepted, it appends exactly these to the document, and a flush
\* whose first attempt is accepted has made this one submission only
C30_PartialBatch ==
    [][\A t \in Threads :
          (fl[t] = "got" /\ subs'[t] = subs[t] + 1
              /\ Len(buffer) >= 1 /\ Len(buffer) < BatchSize) =>
              LET reqs == BatchRequests(buffer, cur[t])
                  ins == Insertions(reqs)
                  n == Len(buffer)
              IN  /\ batch'[t] = buffer
                  /\ Len(ins) = n + 2
                  /\ ins[1].text = HDR /\ ins[n + 2].text = FTR
                  /\ MessageTexts(reqs) = buffer
                  /\ \A i, j \in 1..(n + 2) : i <= j => ins[i].index <= ins[j].index
                  /\ fl'[t] = "wrote" =>
                        /\ doc' = doc \o <<HDR>> \o buffer \o <<FTR>>
                        /\ att[t] = 1 => subs'[t] = 1]_vars

\* the final flush of cleanup has written two buffered messages in its
\* first and only submission
C30_Witness ==
    /\ pc[Main] = "cleanupf" /\ fl[Main] = "wrote" /\ ~running
    /\ Len(buffer) = 2 /\ Len(buffer) < BatchSize
    /\ att[Main] = 1 /\ subs[Main] = 1 /\ batch[Main] = buffer
    /\ Len(doc) >= 4
    /\ SubSeq(doc, Len(doc) - 3, Len(doc)) = <<HDR>> \o buffer \o <<FTR>>

\* C37: in the list _extract_links returns, no two spans overlap (a bare URL
\* inside a markup link is not reported a second time), so each character
\* of the text belongs to at most one span
C37_NoOverlappingSpans ==
    call.fn = "_extract_links" =>
        LET links == call.ret.val
        IN  \A i, j \in 1..Len(links) :
                i # j => links[i].end <= links[j].start \/ links[j].end <= links[i].start

\* C38: _extract_links returns its spans in left-to-right order of start
\* offset, no two of them with the same normalized URL, each with offsets
\* 0 <= start < end <= len(text) into the original text
C38_OrderedDeduplicated ==
    call.fn = "_extract_links" =>
        LET links == call.ret.val
        IN  /\ \A i, j \in 1..Len(links) : i < j => links[i].start <= links[j].start
            /\ \A i, j \in 1..Len(links) : i # j => links[i].url # links[j].url
            /\ \A i \in 1..Len(links) :
                  /\ 0 <= links[i].start /\ links[i].start < links[i].end
                  /\ links[i].end <= Len(call.arg)

\* the parentheses of u opened and not closed again, read left to right
RECURSIVE Unclosed(_, _)
Unclosed(u, open) ==
    IF u = <<>> THEN open
    ELSE IF Head(u) = "(" THEN Unclosed(Tail(u), open + 1)
    ELSE IF Head(u) = ")" /\ open > 0 THEN Unclosed(Tail(u), open - 1)
    ELSE Unclosed(Tail(u), open)

\* C39: _clean_url of a URL ending in ')' keeps that ')' when it closes a
\* '(' inside the URL, and removes it when the URL holds no other
\* parenthesis
C39_TrailingParenthesis ==
    (call.fn = "_clean_url" /\ call.arg # <<>> /\ Last(call.arg) = ")") =>
        LET url == call.arg
            cleaned == call.ret.val
        IN  /\ Unclosed(SubSeq(url, 1, Len(url) - 1), 0) > 0 => cleaned # <<>> /\ Last(cleaned) = ")"
            /\ ~ParenBeforeLast(url) => cleaned = <<>> \/ Last(cleaned) # ")"

\* the position in the list rs of the last insertion before position k, 0 if none
RECURSIVE InsertionBefore(_, _)
InsertionBefore(rs, k) ==
    IF k <= 1 THEN 0 ELSE IF rs[k - 1].op = "insert" THEN k - 1 ELSE InsertionBefore(rs, k - 1)

\* the range of request r lies inside the span the insertion ins occupies
InsideSpan(r, ins) ==
    ins.index <= r.index /\ r.index <= r.to /\ r.to <= ins.index + Len(ins.text)

\* the range of request r shares no character with the span of insertion ins
ApartFrom(r, ins) == r.to <= ins.index \/ ins.index + Len(ins.text) <= r.index

\* C31: in the request list of a batch every style or link request comes
\* after the insertion of the text it styles, its range lies inside the span
\* of that insertion, and it shares no character with the span of the
\* banner, the footer or another message
C31_StyleInsideOwnInsertion ==
    call.fn = "write_batch" =>
        LET rs == call.ret.val
        IN  \A k \in 1..Len(rs) :
                rs[k].op # "insert" =>
                    LET j == InsertionBefore(rs, k)
                    IN  /\ j > 0
                        /\ InsideSpan(rs[k], rs[j])
                        /\ \A i \in 1..Len(rs) :
                              (rs[i].op = "insert" /\ i # j) => ApartFrom(rs[k], rs[i])

\* a batch of two messages, each with a styled forward line and a link in
\* its body, has been composed
C31_Witness ==
    /\ call.fn = "write_batch" /\ Len(call.arg.messages) = 2
    /\ \A i \in 1..2 : /\ call.arg.messages[i].forward_from_channel_name # <<>>
                       /\ _extract_links(call.arg.messages[i].text) # <<>>
    /\ \E k \in 1..Len(call.ret.val) :
          /\ call.ret.val[k].op = "link"
          /\ InsertionBefore(call.ret.val, k) > 3
          /\ \E i \in 1..Len(call.ret.val) :
                call.ret.val[i].op = "insert" /\ call.ret.val[i].index > call.ret.val[k].to

\* the requests of kind op in the list rs that carry the style or the link
\* target x
Carrying(rs, op, x) == {k \in 1..Len(rs) : rs[k].op = op /\ rs[k].text = x}

\* the line is found in the rendered text at offset o, as a whole line
WholeLine(rendered, o, line) ==
    /\ o >= 0 /\ o + Len(line) <= Len(rendered)
    /\ SubSeq(rendered, o + 1, o + Len(line)) = line
    /\ o = 0 \/ rendered[o] = "\n"
    /\ o + Len(line) = Len(rendered) \/ rendered[o + Len(line) + 1] = "\n"

\* exactly one request of rs carries x, and its range is the line as it
\* stands in the text rendered at start_index
StylesLine(rs, op, x, rendered, start_index, line) ==
    /\ Cardinality(Carrying(rs, op, x)) = 1
    /\ \A k \in Carrying(rs, op, x) :
          /\ WholeLine(rendered, rs[k].index - start_index, line)
          /\ rs[k].to - rs[k].index = Len(line)

\* the offsets at which the line stands in the rendered text as a whole line
OffsetsOf(rendered, line) == {o \in 0..Len(rendered) : WholeLine(rendered, o, line)}

\* C32: for every combination of optional sections, each style or link
\* request of the composer starts where its line begins in the rendered
\* text (plus the starting cursor) and has the length of that line; a link
\* of the body starts at the body line plus its offset in the body; a
\* section left out has no request
C32_RangesMatchLines ==
    call.fn = "_create_formatted_message_requests" =>
        LET message == Head(call.arg.messages)
            start_index == call.arg.current_length - 1
            rendered == call.ret.val.formatted_text
            rs == call.ret.val.requests
            forwarded == message.forward_from_channel_name # <<>>
            dated == forwarded /\ message.forward_original_date
            linked == message.original_link # <<>>
            both == linked /\ message.forward_original_link # <<>>
            links == _extract_links(message.text)
        IN  /\ StylesLine(rs, "style", "header", rendered, start_index, header_line(message))
            /\ IF forwarded
               THEN StylesLine(rs, "style", "forward", rendered, start_index, forward_text(message))
               ELSE Carrying(rs, "style", "forward") = {}
            /\ IF dated
               THEN StylesLine(rs, "style", "date", rendered, start_index, orig_date(message))
               ELSE Carrying(rs, "style", "date") = {}
            /\ IF message.has_media
               THEN StylesLine(rs, "style", "media", rendered, start_index, media_text(message))
               ELSE Carrying(rs, "style", "media") = {}
            /\ IF linked
               THEN StylesLine(rs, "link", message.original_link, rendered, start_index, link_text)
               ELSE Carrying(rs, "link", message.original_link) = {}
            /\ IF both
               THEN StylesLine(rs, "link", message.forward_original_link, rendered,
                               start_index, forward_link_text)
               ELSE Carrying(rs, "link", <<"s", "o">>) = {}
            /\ \A l \in 1..Len(links) :
                  \E k \in 1..Len(rs), o \in OffsetsOf(rendered, message.text) :
                      /\ rs[k].op = "link"
                      /\ rs[k] = LinkRequest(start_index + o + links[l].start,
                                             start_index + o + links[l].end, links[l].url)
            /\ Len(rs) = 1 + (IF forwarded THEN 1 ELSE 0) + (IF dated THEN 1 ELSE 0)
                           + (IF message.has_media THEN 1 ELSE 0) + Len(links)
                           + (IF linked THEN 1 ELSE 0) + (IF both THEN 1 ELSE 0)

\* a forwarded message with media and a body but without the original
\* timestamp has been composed, its view lines styled after the body
C32_Witness ==
    /\ call.fn = "_create_formatted_message_requests"
    /\ call.arg.current_length > 2
    /\ LET message == Head(call.arg.messages)
       IN  /\ message.forward_from_channel_name # <<>> /\ ~message.forward_original_date
           /\ message.has_media /\ message.media_caption # <<>>
           /\ Len(message.text) > 1
           /\ message.original_link # <<>> /\ message.forward_original_link # <<>>
    /\ Len(call.ret.val.requests) >= 5

\* C33: a message with an empty body is rendered to a text that starts
\* with the header line and ends with an empty line, the separator and an
\* empty last part; its header style request is produced; and the cursor
\* after each message of a batch is the cursor before it plus the length of
\* its rendered text
C33_EmptyBodyWellFormed ==
    /\ (call.fn = "_create_formatted_message_requests" /\ Head(call.arg.messages).text = <<>>) =>
          LET message == Head(call.arg.messages)
              rendered == call.ret.val.formatted_text
              closing == <<"\n", "\n">> \o MESSAGE_SEPARATOR \o <<"\n">>
          IN  /\ WholeLine(rendered, 0, header_line(message))
              /\ Len(rendered) >= Len(closing)
              /\ SubSeq(rendered, Len(rendered) - Len(closing) + 1, Len(rendered)) = closing
              /\ \E k \in 1..Len(call.ret.val.requests) :
                    /\ call.ret.val.requests[k].op = "style"
                    /\ call.ret.val.requests[k] =
                          StyleRequest(call.arg.current_length - 1,
                                       call.arg.current_length - 1 + Len(header_line(message)),
                                       "header")
    /\ call.fn = "write_batch" =>
          LET ins == Insertions(call.ret.val)
          IN  \A i \in 2..(Len(ins) - 1) :
                  /\ ins[i].text = Join(Parts(call.arg.messages[i - 1]))
                  /\ ins[i + 1].index = ins[i].index + Len(ins[i].text)

\* a batch whose first message has media and a link but no body, and whose
\* second message has neither, has been composed
C33_Witness ==
    /\ call.fn = "write_batch" /\ Len(call.arg.messages) = 2
    /\ call.arg.messages[1].text = <<>> /\ call.arg.messages[1].has_media
    /\ call.arg.messages[1].original_link # <<>>
    /\ call.arg.messages[2].text = <<>> /\ ~call.arg.messages[2].has_media
    /\ call.arg.messages[2].original_link = <<>>
    /\ Len(Insertions(call.ret.val)) = 4

\* C34: a flush whose document write has failed returns to its caller as
\* any other flush does: process_message, periodic_flush, process_pending
\* and cleanup go on where a returning flush_buffer leaves them, and while
\* the process is running periodic_flush goes back to waiting for its next
\* timeout
C34_WriteFailureAbsorbed ==
    [][\A t \in Threads :
          (fl[t] \in {"failed", "raised"} /\ fl'[t] = "none" /\ pc'[Main] # "down") =>
              /\ pc'[t] = Return(t)
              /\ (t = Timer /\ running) => pc'[Timer] = "twait"]_vars

\* C36: when the first open of the state store fails, _open_db leaves
\* neither the old store file nor the journal of that store behind and
\* returns a fresh empty store; it raises only when the second open has
\* been attempted and failed
C36_SelfHeal ==
    (call.fn = "_open_db" /\ ~CanOpen(call.arg.disk, call.arg.opens)) =>
        LET out == call.ret
        IN  /\ out.ret.kind = "raised" =>
                  call.arg.unlinks /\ ~CanOpen(Unlinked(call.arg.disk, call.arg.path),
                                               call.arg.reopens)
            /\ out.ret.kind = "returned" =>
                  /\ out.ret.val = EmptyStore
                  /\ out.disk.store = StoreFile(EmptyStore)
                  /\ JournalOf(call.arg.path) \notin out.disk.journals

\* the messages of the list whose composition does not raise, in list order
Composable(messages, broken) == SelectSeq(messages, LAMBDA m : m \notin broken)

\* C35: when composing a message of a batch fails, write_batch still
\* succeeds in its first attempt, and its one submission holds the other
\* messages of the batch, in order, without the failing one
C35_OffenderDropped ==
    (call.fn = "write_batch"
        /\ \E i \in 1..Len(call.arg.messages) : call.arg.messages[i] \in call.arg.broken) =>
        /\ call.ret.ret.kind = "returned"
        /\ call.ret.attempts = 1
        /\ Len(call.ret.submitted) = 1
        /\ \A k \in 1..Len(call.ret.submitted) :
              MessageTexts(call.ret.submitted[k])
                  = Composable(call.arg.messages, call.arg.broken)

====
